---- MODULE Spec2Model ----
(***************************************************************************)
(* Model of the BE multi-agent workflow: the orchestrator's run() state    *)
(* machine (orchestrator.py), the agents' effects on PipelineState         *)
(* (agents/*.py, state.py) and the checkpoint store (checkpoint_tools.py). *)
(* An action is one agent invocation together with the checkpoint and the  *)
(* control decisions run() makes up to the next agent invocation.          *)
(***************************************************************************)
EXTENDS Integers, Sequences, FiniteSets, TLC

\* ---------------------------------------------------------------- constants
MAX_DEBUG_RETRIES == 3
MAX_REVIEW_RETRIES == 1
LOW_CONFIDENCE_THRESHOLD == 3

\* ------------------------------------------------------------------- bounds
\* Architect invocations one run() invocation may make (the planning loop is
\* unbounded in the code; at the cap the human may only approve).
MaxPlanRounds == 2
\* --resume invocations after the fresh run.
MaxResumes == 1
\* checkpoints one run() invocation saves in the planning loop
MaxCheckpoints == 102

\* ------------------------------------------------------------ status values
INIT == "INIT"
ARCHITECT == "ARCHITECT"
PLAN_REVIEW == "PLAN_REVIEW"
CODING == "CODING"
REVIEWING == "REVIEWING"
TESTING == "TESTING"
DEBUGGING == "DEBUGGING"
INTEGRATION == "INTEGRATION"
WRITING == "WRITING"
DEVOPS == "DEVOPS"
DONE == "DONE"
FAILED == "FAILED"
ABORTED == "ABORTED"

Status ==
  {INIT, ARCHITECT, PLAN_REVIEW, CODING, REVIEWING, TESTING, DEBUGGING,
   INTEGRATION, WRITING, DEVOPS, DONE, FAILED, ABORTED}

\* Python's None, and the truth value Python gives a str-or-None.
None == "None"
Truthy(x) == x \notin {None, ""}

\* dict.get(key, default) on a dict modelled as a function.
Get(d, k, default) == IF k \in DOMAIN d THEN d[k] ELSE default

EmptyDict == <<>>

VARIABLES
  state,            \* the PipelineState object run() holds
  pc,               \* the agent run() invokes next, or "returned"
  review_attempts,  \* run()'s local of Stage 2
  attempts,         \* run()'s local of Stage 3
  step,             \* the module global _step
  files,            \* the run's checkpoint directory: file name -> snapshot
  calls,            \* agent invocations and gate inputs of this run() invocation
  resumes,          \* number of --resume invocations made so far
  ret,              \* value returned by a directly called function
  subprocesses,     \* how the external commands of the last agent call ended
  proc,             \* run_integration_tests' proc: <<>> (None) or <<process>>
  polls             \* health-poll iterations run_integration_tests has made

vars ==
  <<state, pc, review_attempts, attempts, step, files, calls, resumes, ret,
    subprocesses, proc, polls>>

\* ------------------------------------------------------------ PipelineState
NewState(devops_mode) ==
  [ status |-> INIT,
    plan |-> <<>>,
    plan_approved |-> FALSE,
    user_feedback |-> None,
    generated_files |-> EmptyDict,
    review_notes |-> None,
    review_retry_count |-> 0,
    test_files |-> EmptyDict,
    test_output |-> EmptyDict,
    static_analysis_output |-> None,
    error_log |-> None,
    fix_instructions |-> None,
    retry_count |-> 0,
    integration_passed |-> None,
    docs_updated |-> FALSE,
    devops_mode |-> devops_mode,
    audit_trail |-> <<>> ]

LogKeepingLatestOnly(s, agent, notes) ==
  [s EXCEPT !.audit_trail =
     <<[cls |-> "AuditEntry", agent |-> agent, status |-> s.status,
        notes |-> notes]>>]

\* PipelineState.log
Log(s, agent, notes) ==
  [s EXCEPT !.audit_trail =
     Append(@, [cls |-> "AuditEntry", agent |-> agent, status |-> s.status,
                notes |-> notes])]

test_passed_ignoring_static(s) ==
  Get(s.test_output, "returncode", 1) = 0

\* PipelineState.test_passed
test_passed(s) ==
  LET has_static_errors == Truthy(s.static_analysis_output)
      has_runtime_errors == Get(s.test_output, "returncode", 1) # 0
  IN  ~has_static_errors /\ ~has_runtime_errors

\* ------------------------------------------------------------------ helpers
\* d[k] = v on a dict modelled as a function.
Upsert(d, k, v) == [x \in (DOMAIN d) \cup {k} |-> IF x = k THEN v ELSE d[x]]

\* A dataclass object carries its class (cls); the dict asdict makes of it
\* does not.
PlanItem(file) ==
  [cls |-> "PlanItem", file |-> file, action |-> "CREATE", api_contract |-> ""]

\* What the LLM and the external tools may answer.
ArchitectResponses == {"badjson", "plan"}
GateChoices == {"A", "C", "X"}
ReviewerResponses == {"VERDICT: PASS", "VERDICT: REJECT", "looks fine"}
StaticResults == {0, 1}          \* number of static errors reported
TestReturnCodes == {0, 1}        \* exit code of the test runner
ConfidenceMatches == {<<>>, <<2>>, <<3>>}   \* groups of CONFIDENCE:\s*(\d)

\* ------------------------------------------------------------------- agents
\* ArchitectAgent.run
ArchitectRun(s, resp) ==
  LET s1 == [s EXCEPT !.status = ARCHITECT]
  IN  IF resp = "badjson"
      THEN Log([s1 EXCEPT !.plan = <<>>], "Architect", "Plan parsing error")
      ELSE Log([s1 EXCEPT !.plan = <<PlanItem("a.py")>>,
                          !.plan_approved = FALSE],
               "Architect", "plan items")

human_plan_approval_keeps_feedback(s, choice) ==
  CASE choice = "A" -> [s EXCEPT !.plan_approved = TRUE]
    [] choice = "C" -> [s EXCEPT !.user_feedback = "feedback", !.plan_approved = FALSE]
    [] choice = "X" -> [s EXCEPT !.status = ABORTED]

\* _human_plan_approval
human_plan_approval(s, choice) ==
  CASE choice = "A" -> [s EXCEPT !.plan_approved = TRUE, !.user_feedback = None]
    [] choice = "C" -> [s EXCEPT !.user_feedback = "feedback", !.plan_approved = FALSE]
    [] choice = "X" -> [s EXCEPT !.status = ABORTED]

RECURSIVE GenerateItems(_, _)
GenerateItems(gf, plan) ==
  IF plan = <<>> THEN gf
  ELSE GenerateItems(Upsert(gf, Head(plan).file, "gen"), Tail(plan))

\* CoderAgent._generate_from_plan
generate_from_plan(s) ==
  Log([s EXCEPT !.generated_files = GenerateItems(@, s.plan),
                !.fix_instructions = None],
      "Coder", "files generated")

\* CoderAgent._apply_fix
apply_fix(s, matches) ==
  Log([s EXCEPT !.generated_files = IF matches THEN Upsert(@, "a.py", "fix") ELSE @,
                !.fix_instructions = None],
      "Coder", "fix applied")

\* CoderAgent.run
CoderRun(s, matches) ==
  LET s1 == [s EXCEPT !.status = CODING]
  IN  IF Truthy(s1.fix_instructions) THEN apply_fix(s1, matches)
      ELSE generate_from_plan(s1)

parse_verdict_default_reject(text) ==
  CASE text = "VERDICT: PASS" -> "PASS"
    [] text = "VERDICT: REJECT" -> "REJECT"
    [] OTHER -> "REJECT"

\* _parse_verdict (reviewer_agent.py) and _reviewer_verdict (orchestrator.py)
parse_verdict(text) ==
  CASE text = "VERDICT: PASS" -> "PASS"
    [] text = "VERDICT: REJECT" -> "REJECT"
    [] OTHER -> "PASS"

reviewer_verdict(review_notes) == parse_verdict(review_notes)

\* ReviewerAgent.run
ReviewerRun(s, resp) ==
  LET s1 == [s EXCEPT !.status = REVIEWING]
  IN  IF DOMAIN s1.generated_files = {}
      THEN Log([s1 EXCEPT !.review_notes = "No files to review."],
               "Reviewer", "skip")
      ELSE LET s2 == [s1 EXCEPT !.review_notes = resp]
           IN  IF parse_verdict(resp) = "REJECT"
               THEN Log([s2 EXCEPT !.review_retry_count = @ + 1],
                        "Reviewer", "REJECTED")
               ELSE Log(s2, "Reviewer", "PASSED")

ErrorBlock(n) == IF n = 0 THEN "" ELSE IF n = 1 THEN "E1" ELSE "E1\nE2"

\* TesterAgent._run_static_analysis
run_static_analysis(s, nerr) ==
  IF nerr > 0
  THEN [s EXCEPT !.static_analysis_output = ErrorBlock(nerr),
                 !.error_log = "STATIC ANALYSIS ERRORS"]
  ELSE [s EXCEPT !.static_analysis_output = None]

\* TesterAgent._try_auto_fix_pyflakes; nfix of the reported errors match one
\* of the three pyflakes patterns.
try_auto_fix_pyflakes(s, nerr, nfix) ==
  LET remaining == nerr - nfix
  IN  IF nfix > 0
      THEN IF remaining > 0
           THEN [s EXCEPT !.static_analysis_output = ErrorBlock(remaining),
                          !.error_log = "STATIC ANALYSIS ERRORS"]
           ELSE [s EXCEPT !.static_analysis_output = None, !.error_log = None]
      ELSE s

\* TesterAgent._generate_tests
generate_tests(s) ==
  Log([s EXCEPT !.test_files = Upsert(@, "tests/test_a.py", "test")],
      "Tester", "test file(s) generated")

\* TesterAgent.run, from the test generation step on.
RunRuntimeTests(s, rc) ==
  LET s1 == IF DOMAIN s.test_files = {} \/ s.retry_count > 0
            THEN generate_tests(s) ELSE s
      s2 == [s1 EXCEPT !.test_output = [returncode |-> rc]]
  IN  IF rc # 0
      THEN Log([s2 EXCEPT !.error_log = "STDOUT STDERR"], "Tester", "RUNTIME FAIL")
      ELSE Log([s2 EXCEPT !.error_log = None], "Tester", "PASS")

TesterRunNoEarlyReturn(s, nerr, nfix, python, rc) ==
  LET s1 == [s EXCEPT !.status = TESTING]
      s2 == run_static_analysis(s1, nerr)
      s3 == IF Truthy(s2.static_analysis_output) /\ python
            THEN try_auto_fix_pyflakes(s2, nerr, nfix) ELSE s2
  IN  RunRuntimeTests(s3, rc)

\* TesterAgent.run
TesterRun(s, nerr, nfix, python, rc) ==
  LET s1 == [s EXCEPT !.status = TESTING]
      s2 == run_static_analysis(s1, nerr)
      s3 == IF Truthy(s2.static_analysis_output) /\ python
            THEN try_auto_fix_pyflakes(s2, nerr, nfix) ELSE s2
  IN  IF Truthy(s3.static_analysis_output)
      THEN Log(s3, "Tester", "STATIC ERRORS")
      ELSE RunRuntimeTests(s3, rc)

\* DebuggerAgent.run: int(confidence_match.group(1)) if confidence_match else 3
ParseConfidence(confidence_match) ==
  IF confidence_match # <<>> THEN confidence_match[1] ELSE 3

DebuggerRunLowThreshold(s, confidence_match) ==
  LET s1 == [s EXCEPT !.status = DEBUGGING]
      confidence == ParseConfidence(confidence_match)
  IN  IF confidence < LOW_CONFIDENCE_THRESHOLD - 1
      THEN Log([s1 EXCEPT !.fix_instructions = None, !.status = FAILED],
               "Debugger", "LOW CONFIDENCE")
      ELSE Log([s1 EXCEPT !.fix_instructions = "fix",
                          !.static_analysis_output = None,
                          !.retry_count = @ + 1],
               "Debugger", "Fix ready")

\* DebuggerAgent.run
DebuggerRun(s, confidence_match) ==
  LET s1 == [s EXCEPT !.status = DEBUGGING]
      confidence == ParseConfidence(confidence_match)
  IN  IF confidence < LOW_CONFIDENCE_THRESHOLD
      THEN Log([s1 EXCEPT !.fix_instructions = None, !.status = FAILED],
               "Debugger", "LOW CONFIDENCE")
      ELSE Log([s1 EXCEPT !.fix_instructions = "fix",
                          !.static_analysis_output = None,
                          !.retry_count = @ + 1],
               "Debugger", "Fix ready")

\* IntegrationAgent.run
IntegrationRun(s, passed) ==
  LET s1 == [s EXCEPT !.status = INTEGRATION]
  IN  IF passed
      THEN Log([s1 EXCEPT !.integration_passed = "True"],
               "IntegrationAgent", "All integration tests passed")
      ELSE Log([s1 EXCEPT !.integration_passed = "False",
                          !.error_log = "INTEGRATION TEST FAILURES"],
               "IntegrationAgent", "Integration tests failed")

\* WriterAgent.run
WriterRun(s) ==
  LET s1 == [s EXCEPT !.status = WRITING]
  IN  Log([s1 EXCEPT !.docs_updated = TRUE, !.status = DONE],
          "Writer", "docs written, status=DONE")

\* DevOpsAgent.run
DevOpsRun(s) ==
  Log([s EXCEPT !.status = DEVOPS], "DevOps", "file(s) generated")

\* --------------------------------------------------------- checkpoint store
\* state_<step:02d>_<agent_name>.json; a numbered label such as
\* tester_attempt2 is kept as kind "tester_attempt" and n = 2 (n = 0: none).
FileName(stp, kind, n) == [step |-> stp, kind |-> kind, n |-> n]

\* dataclasses.asdict on the nested dataclass objects
PlanItemAsDict(o) ==
  [file |-> o.file, action |-> o.action, api_contract |-> o.api_contract]
AuditEntryAsDict(o) ==
  [agent |-> o.agent, status |-> o.status, notes |-> o.notes]

\* PipelineState.to_dict: plan items and audit entries become dicts
to_dict(s) ==
  [s EXCEPT !.plan = [i \in DOMAIN @ |-> PlanItemAsDict(@[i])],
            !.audit_trail = [i \in DOMAIN @ |-> AuditEntryAsDict(@[i])]]

\* How the fields are written in JSON.
BoolFields == {"plan_approved", "docs_updated"}
OptionalFields ==
  {"user_feedback", "review_notes", "static_analysis_output", "error_log",
   "fix_instructions", "devops_mode"}

\* json.dump of one field: None is null, True/False are true/false
JsonValue(f, v) ==
  IF f \in BoolFields THEN (IF v THEN "true" ELSE "false")
  ELSE IF f = "integration_passed"
  THEN (CASE v = None -> "null" [] v = "True" -> "true" [] v = "False" -> "false")
  ELSE IF f \in OptionalFields THEN (IF v = None THEN "null" ELSE v)
  ELSE v

\* json.load of one field
PythonValue(f, j) ==
  IF f \in BoolFields THEN j = "true"
  ELSE IF f = "integration_passed"
  THEN (CASE j = "null" -> None [] j = "true" -> "True" [] j = "false" -> "False")
  ELSE IF f \in OptionalFields THEN (IF j = "null" THEN None ELSE j)
  ELSE j

\* json.dump / json.load of a snapshot dict
json_dump(d) ==
  [
    status |-> JsonValue("status", d.status),
    plan |-> JsonValue("plan", d.plan),
    plan_approved |-> JsonValue("plan_approved", d.plan_approved),
    user_feedback |-> JsonValue("user_feedback", d.user_feedback),
    generated_files |-> JsonValue("generated_files", d.generated_files),
    review_notes |-> JsonValue("review_notes", d.review_notes),
    review_retry_count |-> JsonValue("review_retry_count", d.review_retry_count),
    test_files |-> JsonValue("test_files", d.test_files),
    test_output |-> JsonValue("test_output", d.test_output),
    static_analysis_output |-> JsonValue("static_analysis_output", d.static_analysis_output),
    error_log |-> JsonValue("error_log", d.error_log),
    fix_instructions |-> JsonValue("fix_instructions", d.fix_instructions),
    retry_count |-> JsonValue("retry_count", d.retry_count),
    integration_passed |-> JsonValue("integration_passed", d.integration_passed),
    docs_updated |-> JsonValue("docs_updated", d.docs_updated),
    devops_mode |-> JsonValue("devops_mode", d.devops_mode),
    audit_trail |-> JsonValue("audit_trail", d.audit_trail) ]
json_load(doc) == [f \in DOMAIN doc |-> PythonValue(f, doc[f])]

\* PlanItem(**p), AuditEntry(**e)
PlanItemFromDict(p) ==
  [cls |-> "PlanItem", file |-> p.file, action |-> p.action,
   api_contract |-> Get(p, "api_contract", "")]
AuditEntryFromDict(e) ==
  [cls |-> "AuditEntry", agent |-> e.agent, status |-> e.status,
   notes |-> Get(e, "notes", "")]

from_dict_integration_default_false(data) ==
  LET D == NewState(None)
      F(f) == Get(data, f, D[f])
  IN  [ status |-> F("status"),
        plan |-> [i \in DOMAIN F("plan") |-> PlanItemFromDict(F("plan")[i])],
        plan_approved |-> F("plan_approved"),
        user_feedback |-> F("user_feedback"),
        generated_files |-> F("generated_files"),
        review_notes |-> F("review_notes"),
        review_retry_count |-> F("review_retry_count"),
        test_files |-> F("test_files"),
        test_output |-> F("test_output"),
        static_analysis_output |-> F("static_analysis_output"),
        error_log |-> F("error_log"),
        fix_instructions |-> F("fix_instructions"),
        retry_count |-> F("retry_count"),
        integration_passed |-> Get(data, "integration_passed", "False"),
        docs_updated |-> F("docs_updated"),
        devops_mode |-> F("devops_mode"),
        audit_trail |-> [i \in DOMAIN F("audit_trail") |->
                           AuditEntryFromDict(F("audit_trail")[i])] ]

from_dict_trail_as_dicts(data) ==
  LET D == NewState(None)
      F(f) == Get(data, f, D[f])
  IN  [ status |-> F("status"),
        plan |-> [i \in DOMAIN F("plan") |-> PlanItemFromDict(F("plan")[i])],
        plan_approved |-> F("plan_approved"),
        user_feedback |-> F("user_feedback"),
        generated_files |-> F("generated_files"),
        review_notes |-> F("review_notes"),
        review_retry_count |-> F("review_retry_count"),
        test_files |-> F("test_files"),
        test_output |-> F("test_output"),
        static_analysis_output |-> F("static_analysis_output"),
        error_log |-> F("error_log"),
        fix_instructions |-> F("fix_instructions"),
        retry_count |-> F("retry_count"),
        integration_passed |-> F("integration_passed"),
        docs_updated |-> F("docs_updated"),
        devops_mode |-> F("devops_mode"),
        audit_trail |-> F("audit_trail") ]

\* PipelineState.from_dict: plan and audit_trail are rebuilt as objects, a
\* field the snapshot lacks takes the dataclass default
from_dict(data) ==
  LET D == NewState(None)
      F(f) == Get(data, f, D[f])
  IN  [ status |-> F("status"),
        plan |-> [i \in DOMAIN F("plan") |-> PlanItemFromDict(F("plan")[i])],
        plan_approved |-> F("plan_approved"),
        user_feedback |-> F("user_feedback"),
        generated_files |-> F("generated_files"),
        review_notes |-> F("review_notes"),
        review_retry_count |-> F("review_retry_count"),
        test_files |-> F("test_files"),
        test_output |-> F("test_output"),
        static_analysis_output |-> F("static_analysis_output"),
        error_log |-> F("error_log"),
        fix_instructions |-> F("fix_instructions"),
        retry_count |-> F("retry_count"),
        integration_passed |-> F("integration_passed"),
        docs_updated |-> F("docs_updated"),
        devops_mode |-> F("devops_mode"),
        audit_trail |-> [i \in DOMAIN F("audit_trail") |->
                           AuditEntryFromDict(F("audit_trail")[i])] ]

\* save_checkpoint: json.dump(state.to_dict(), f)
save_checkpoint(fs, s, kind, n, stp) ==
  Upsert(fs, FileName(stp, kind, n), json_dump(to_dict(s)))

\* Position of a label kind in the lexical order of the file names.
KindRank(kind) ==
  CASE kind = "architect" -> 1
    [] kind = "coder" -> 2
    [] kind = "coder_fix_integration_" -> 3
    [] kind = "coder_fix_unit_" -> 4
    [] kind = "debugger_integration_" -> 5
    [] kind = "debugger_unit_" -> 6
    [] kind = "devops_final" -> 7
    [] kind = "integration_attempt" -> 8
    [] kind = "plan_review" -> 9
    [] kind = "reviewer" -> 10
    [] kind = "tester_attempt" -> 11
    [] kind = "writer_final" -> 12

\* Decimal digits of n as character codes.
RECURSIVE Digits(_)
Digits(n) ==
  IF n < 10 THEN <<48 + n>> ELSE Append(Digits(n \div 10), 48 + (n % 10))

\* f"{step:02d}": at least two digits, more when the step needs them
StepText(stp) == IF stp < 10 THEN <<48>> \o Digits(stp) ELSE Digits(stp)

\* The part of the file name that holds the step: "<step:02d>_"
StepKey(stp) == Append(StepText(stp), 95)

\* String comparison, character by character.
RECURSIVE SeqLess(_, _)
SeqLess(a, b) ==
  IF a = <<>> THEN b # <<>>
  ELSE IF b = <<>> THEN FALSE
  ELSE IF Head(a) # Head(b) THEN Head(a) < Head(b)
  ELSE SeqLess(Tail(a), Tail(b))

\* sorted() on the file names (labels: n below 10).
NameLess(a, b) ==
  \/ SeqLess(StepKey(a.step), StepKey(b.step))
  \/ a.step = b.step /\ KindRank(a.kind) < KindRank(b.kind)
  \/ a.step = b.step /\ a.kind = b.kind /\ a.n < b.n

LatestName(fs) ==
  CHOOSE f \in DOMAIN fs : \A g \in (DOMAIN fs) \ {f} : NameLess(g, f)

\* load_latest_checkpoint; None when the run has no snapshot
load_latest_checkpoint(fs) ==
  IF DOMAIN fs = {} THEN None ELSE from_dict(json_load(fs[LatestName(fs)]))

\* ------------------------------------------------------- run(): stage entry
Terminal == {DONE, FAILED, ABORTED}

MarkDoneAlways(s) ==
  [pc |-> "returned", s |-> [s EXCEPT !.status = DONE]]

\* "Mark done" and return
MarkDone(s) ==
  [pc |-> "returned",
   s |-> IF s.status \notin {FAILED, ABORTED} THEN [s EXCEPT !.status = DONE] ELSE s]

\* Stage 5 guard
EnterStage5(s) ==
  IF Truthy(s.devops_mode) /\ s.status \notin {DONE, FAILED, ABORTED}
  THEN [pc |-> "devops", s |-> s]
  ELSE MarkDone(s)

\* Stage 4 guard
EnterStage4(s) ==
  IF s.status \notin {WRITING, DEVOPS, DONE, FAILED, ABORTED}
  THEN [pc |-> "writer", s |-> s]
  ELSE EnterStage5(s)

\* Stage 3 guard
EnterStage3(s) ==
  IF s.status \in {REVIEWING, CODING, TESTING, DEBUGGING, INTEGRATION}
  THEN [pc |-> "tester", s |-> s]
  ELSE EnterStage4(s)

\* Stage 2 guard
EnterStage2(s) ==
  IF s.status \in {PLAN_REVIEW, CODING, REVIEWING}
  THEN [pc |-> "coder", s |-> s]
  ELSE EnterStage3(s)

\* Stage 1 guard
EnterStage1(s) ==
  IF s.status \in {INIT, ARCHITECT, PLAN_REVIEW}
  THEN [pc |-> "architect", s |-> s]
  ELSE EnterStage2(s)

EnterAttemptsFromZero(d) ==
  /\ pc' = d.pc
  /\ state' = d.s
  /\ review_attempts' = IF d.pc = "coder" THEN d.s.review_retry_count ELSE review_attempts
  /\ attempts' = IF d.pc = "tester" THEN 0 ELSE attempts

\* The locals a stage sets when run() enters it at d.pc.
Enter(d) ==
  /\ pc' = d.pc
  /\ state' = d.s
  /\ review_attempts' = IF d.pc = "coder" THEN d.s.review_retry_count ELSE review_attempts
  /\ attempts' = IF d.pc = "tester" THEN d.s.retry_count ELSE attempts

Called(e) == calls' = Append(calls, e)

\* _checkpoint
Checkpoint(s, kind, n) ==
  /\ step' = step + 1
  /\ files' = save_checkpoint(files, s, kind, n, step + 1)

\* ------------------------------------------------------------------ actions
Init ==
  /\ state \in {NewState(None), NewState("all")}
  /\ pc = "architect"
  /\ review_attempts = 0
  /\ attempts = 0
  /\ step = 0
  /\ files = <<>>
  /\ calls = <<>>
  /\ resumes = 0
  /\ ret = None
  /\ subprocesses = <<>>
  /\ proc = <<>>
  /\ polls = 0

ArchitectCount == Cardinality({i \in DOMAIN calls : calls[i] = "Architect"})

\* Stage 1: architect.run and its checkpoint
Architect ==
  /\ pc = "architect"
  /\ \E resp \in ArchitectResponses :
       LET s1 == ArchitectRun(state, resp)
       IN  /\ Checkpoint(s1, "architect", 0)
           /\ state' = s1
  /\ pc' = "gate"
  /\ Called("Architect")
  /\ UNCHANGED <<review_attempts, attempts, resumes, ret,
               subprocesses, proc, polls>>

\* What run() does with the state the gate returned.
AfterGate(s1) ==
  LET s2 == [s1 EXCEPT !.status = PLAN_REVIEW]
  IN  /\ Checkpoint(s2, "plan_review", 0)
      /\ IF s2.status = ABORTED
         THEN /\ pc' = "returned"
              /\ state' = s2
              /\ UNCHANGED <<review_attempts, attempts>>
         ELSE IF s2.plan_approved
         THEN Enter(EnterStage2(s2))
         ELSE /\ pc' = "architect"
              /\ state' = s2
              /\ UNCHANGED <<review_attempts, attempts>>

\* Stage 1: the human gate, its checkpoint and the loop decision
HumanGate ==
  /\ pc = "gate"
  /\ \E choice \in GateChoices :
       /\ choice # "A" => ArchitectCount < MaxPlanRounds
       /\ AfterGate(human_plan_approval(state, choice))
       /\ Called(choice)
  /\ UNCHANGED <<resumes, ret,
               subprocesses, proc, polls>>

\* Stage 2a: coder.run and its checkpoint. FixFormats: whether the LLM's fix
\* response holds "# FILE:" blocks.
Coder(FixFormats) ==
  /\ pc = "coder"
  /\ \E matches \in FixFormats :
       LET s1 == CoderRun(state, matches)
       IN  /\ Checkpoint(s1, "coder", 0)
           /\ state' = s1
  /\ pc' = "reviewer"
  /\ Called("Coder")
  /\ UNCHANGED <<review_attempts, attempts, resumes, ret,
               subprocesses, proc, polls>>

AfterReviewHardFail(s1) ==
  LET verdict == reviewer_verdict(s1.review_notes)
  IN  IF verdict = "PASS"
      THEN Enter(EnterStage3(s1))
      ELSE IF review_attempts >= MAX_REVIEW_RETRIES
      THEN /\ state' = [s1 EXCEPT !.status = FAILED]
           /\ pc' = "returned"
           /\ UNCHANGED <<review_attempts, attempts>>
      ELSE /\ review_attempts' = review_attempts + 1
           /\ state' = [s1 EXCEPT !.review_retry_count = review_attempts + 1,
                                  !.fix_instructions = "review"]
           /\ pc' = "coder"
           /\ UNCHANGED attempts

AfterReviewOffByOne(s1) ==
  LET verdict == reviewer_verdict(s1.review_notes)
  IN  IF verdict = "PASS"
      THEN Enter(EnterStage3(s1))
      ELSE IF review_attempts > MAX_REVIEW_RETRIES
      THEN Enter(EnterStage3(s1))
      ELSE /\ review_attempts' = review_attempts + 1
           /\ state' = [s1 EXCEPT !.review_retry_count = review_attempts + 1,
                                  !.fix_instructions = "review"]
           /\ pc' = "coder"
           /\ UNCHANGED attempts

\* What run() does with the reviewed state.
AfterReview(s1) ==
  LET verdict == reviewer_verdict(s1.review_notes)
  IN  IF verdict = "PASS"
      THEN Enter(EnterStage3(s1))
      ELSE IF review_attempts >= MAX_REVIEW_RETRIES
      THEN Enter(EnterStage3(s1))
      ELSE /\ review_attempts' = review_attempts + 1
           /\ state' = [s1 EXCEPT !.review_retry_count = review_attempts + 1,
                                  !.fix_instructions = "review"]
           /\ pc' = "coder"
           /\ UNCHANGED attempts

\* Stage 2b: reviewer.run, its checkpoint and the verdict handling
Reviewer(Responses) ==
  /\ pc = "reviewer"
  /\ \E resp \in Responses :
       LET s1 == ReviewerRun(state, resp)
       IN  /\ Checkpoint(s1, "reviewer", 0)
           /\ AfterReview(s1)
  /\ Called("Reviewer")
  /\ UNCHANGED <<resumes, ret,
               subprocesses, proc, polls>>

AfterTestIgnoresStatic(s1) ==
  IF Get(s1.test_output, "returncode", 1) # 0
  THEN IF attempts >= MAX_DEBUG_RETRIES
       THEN /\ state' = [s1 EXCEPT !.status = FAILED]
            /\ pc' = "returned"
       ELSE /\ state' = s1
            /\ pc' = "debugger_unit"
  ELSE /\ state' = s1
       /\ pc' = "integration"

AfterTestOffByOne(s1) ==
  IF ~test_passed(s1)
  THEN IF attempts > MAX_DEBUG_RETRIES
       THEN /\ state' = [s1 EXCEPT !.status = FAILED]
            /\ pc' = "returned"
       ELSE /\ state' = s1
            /\ pc' = "debugger_unit"
  ELSE /\ state' = s1
       /\ pc' = "integration"

\* What run() does with the tested state.
AfterTest(s1) ==
  IF ~test_passed(s1)
  THEN IF attempts >= MAX_DEBUG_RETRIES
       THEN /\ state' = [s1 EXCEPT !.status = FAILED]
            /\ pc' = "returned"
       ELSE /\ state' = s1
            /\ pc' = "debugger_unit"
  ELSE /\ state' = s1
       /\ pc' = "integration"

\* Stage 3a: tester.run, its checkpoint and the pass/fail decision
Tester ==
  /\ pc = "tester"
  /\ \E nerr \in StaticResults, python \in BOOLEAN, rc \in TestReturnCodes :
       \E nfix \in 0..nerr :
         LET s1 == TesterRun(state, nerr, nfix, python, rc)
         IN  /\ Checkpoint(s1, "tester_attempt", attempts + 1)
             /\ AfterTest(s1)
  /\ Called("Tester")
  /\ UNCHANGED <<review_attempts, attempts, resumes, ret,
               subprocesses, proc, polls>>

\* What run() does with the state the Debugger returned.
AfterDebug(s1, kind) ==
  /\ state' = s1
  /\ pc' = IF s1.status = FAILED THEN "returned"
           ELSE IF kind = "unit" THEN "coder_fix_unit" ELSE "coder_fix_integration"

\* Stage 3: debugger.run after a unit or an integration failure
Debugger ==
  /\ pc \in {"debugger_unit", "debugger_integration"}
  /\ \E m \in ConfidenceMatches :
       LET s1 == DebuggerRun(state, m)
       IN  /\ IF pc = "debugger_unit"
              THEN Checkpoint(s1, "debugger_unit_", attempts + 1)
              ELSE Checkpoint(s1, "debugger_integration_", attempts + 1)
           /\ AfterDebug(s1, IF pc = "debugger_unit" THEN "unit" ELSE "integration")
  /\ Called("Debugger")
  /\ UNCHANGED <<review_attempts, attempts, resumes, ret,
               subprocesses, proc, polls>>

CoderFixBackToIntegration(FixFormats) ==
  /\ pc \in {"coder_fix_unit", "coder_fix_integration"}
  /\ \E matches \in FixFormats :
       LET s1 == CoderRun(state, matches)
       IN  /\ IF pc = "coder_fix_unit"
              THEN /\ Checkpoint(s1, "coder_fix_unit_", attempts + 1)
                   /\ state' = s1
                   /\ pc' = "tester"
              ELSE /\ Checkpoint(s1, "coder_fix_integration_", attempts + 1)
                   /\ state' = [s1 EXCEPT !.integration_passed = None]
                   /\ pc' = "integration"
           /\ attempts' = s1.retry_count
  /\ Called("Coder")
  /\ UNCHANGED <<review_attempts, resumes, ret,
               subprocesses, proc, polls>>

\* Stage 3: coder.run applying the Debugger's fix, then back to 3a
CoderFix(FixFormats) ==
  /\ pc \in {"coder_fix_unit", "coder_fix_integration"}
  /\ \E matches \in FixFormats :
       LET s1 == CoderRun(state, matches)
       IN  /\ IF pc = "coder_fix_unit"
              THEN /\ Checkpoint(s1, "coder_fix_unit_", attempts + 1)
                   /\ state' = s1
              ELSE /\ Checkpoint(s1, "coder_fix_integration_", attempts + 1)
                   /\ state' = [s1 EXCEPT !.integration_passed = None]
           /\ attempts' = s1.retry_count
  /\ pc' = "tester"
  /\ Called("Coder")
  /\ UNCHANGED <<review_attempts, resumes, ret,
               subprocesses, proc, polls>>

AfterIntegrationOwnBudget(s1) ==
  IF s1.integration_passed = "True"
  THEN Enter(EnterStage4(s1))
  ELSE /\ IF attempts >= MAX_DEBUG_RETRIES + 1
          THEN /\ state' = [s1 EXCEPT !.status = FAILED]
               /\ pc' = "returned"
          ELSE /\ state' = s1
               /\ pc' = "debugger_integration"
       /\ UNCHANGED <<review_attempts, attempts>>

AfterIntegrationProceedsAtCap(s1) ==
  IF s1.integration_passed = "True"
  THEN Enter(EnterStage4(s1))
  ELSE IF attempts >= MAX_DEBUG_RETRIES
  THEN Enter(EnterStage4(s1))
  ELSE /\ state' = s1
       /\ pc' = "debugger_integration"
       /\ UNCHANGED <<review_attempts, attempts>>

\* What run() does with the state the Integration agent returned.
AfterIntegration(s1) ==
  IF s1.integration_passed = "True"
  THEN Enter(EnterStage4(s1))
  ELSE /\ IF attempts >= MAX_DEBUG_RETRIES
          THEN /\ state' = [s1 EXCEPT !.status = FAILED]
               /\ pc' = "returned"
          ELSE /\ state' = s1
               /\ pc' = "debugger_integration"
       /\ UNCHANGED <<review_attempts, attempts>>

\* Stage 3b: integrator.run, its checkpoint and the pass/fail decision
Integration ==
  /\ pc = "integration"
  /\ \E passed \in BOOLEAN :
       LET s1 == IntegrationRun(state, passed)
       IN  /\ Checkpoint(s1, "integration_attempt", attempts + 1)
           /\ AfterIntegration(s1)
  /\ Called("IntegrationAgent")
  /\ UNCHANGED <<resumes, ret,
               subprocesses, proc, polls>>

\* Stage 4: writer.run and its checkpoint
Writer ==
  /\ pc = "writer"
  /\ LET s1 == WriterRun(state)
     IN  /\ Checkpoint(s1, "writer_final", 0)
         /\ Enter(EnterStage5(s1))
  /\ Called("Writer")
  /\ UNCHANGED <<resumes, ret,
               subprocesses, proc, polls>>

\* Stage 5: devops.run, its checkpoint and "mark done"
DevOps ==
  /\ pc = "devops"
  /\ LET s1 == DevOpsRun(state)
     IN  /\ Checkpoint(s1, "devops_final", 0)
         /\ Enter(MarkDone(s1))
  /\ Called("DevOps")
  /\ UNCHANGED <<resumes, ret,
               subprocesses, proc, polls>>

\* main --resume <run_id>: the process is started again (after a crash, a
\* kill or a return) and run() is given the latest checkpoint.
Resume ==
  /\ resumes < MaxResumes
  /\ DOMAIN files # {}
  /\ \E devops_mode \in {None, "all"} :   \* the --devops argument
       LET existing_state == load_latest_checkpoint(files)
           s1 == IF Truthy(devops_mode) /\ ~Truthy(existing_state.devops_mode)
                 THEN [existing_state EXCEPT !.devops_mode = devops_mode]
                 ELSE existing_state
       IN  Enter(EnterStage1(s1))
  /\ step' = 0
  /\ calls' = <<>>
  /\ resumes' = resumes + 1
  /\ UNCHANGED <<files, ret,
               subprocesses, proc, polls>>

\* ------------------------------------------------ test_passed called directly
StaticOutputs == {None, "", "E1", "E1\nE2"}

TestOutputs ==
  {EmptyDict}
    \cup {[stdout |-> o, stderr |-> e] : o \in {"", "out"}, e \in {"", "err"}}
    \cup {[returncode |-> rc, stdout |-> o, stderr |-> e] :
            rc \in {-1, 0, 1, 2}, o \in {"", "out"}, e \in {"", "err"}}

\* A PipelineState built or loaded with any static_analysis_output and
\* test_output, on which test_passed() is about to be called.
InitTestPassed ==
  /\ state \in {[NewState(None) EXCEPT !.static_analysis_output = so,
                                       !.test_output = to] :
                  so \in StaticOutputs, to \in TestOutputs}
  /\ pc = "test_passed"
  /\ review_attempts = 0
  /\ attempts = 0
  /\ step = 0
  /\ files = <<>>
  /\ calls = <<>>
  /\ resumes = 0
  /\ ret = None
  /\ subprocesses = <<>>
  /\ proc = <<>>
  /\ polls = 0

CallTestPassed ==
  /\ pc = "test_passed"
  /\ ret' = test_passed(state)
  /\ pc' = "test_passed_returned"
  /\ UNCHANGED <<state, review_attempts, attempts, step, files, calls, resumes,
               subprocesses, proc, polls>>

SpecTestPassed == InitTestPassed /\ [][CallTestPassed]_vars

\* ------------------------------------- the checkpoints of a long planning loop
\* One run() invocation whose human keeps asking for changes: _checkpoint is
\* called with "architect" and "plan_review" in turn.
InitNaming == Init /\ state.devops_mode = None

CheckpointCall ==
  /\ step < MaxCheckpoints
  /\ pc \in {"architect", "gate"}
  /\ Checkpoint(state, IF pc = "architect" THEN "architect" ELSE "plan_review", 0)
  /\ pc' = IF pc = "architect" THEN "gate" ELSE "architect"
  /\ UNCHANGED <<state, review_attempts, attempts, calls, resumes, ret,
               subprocesses, proc, polls>>

SpecNaming == InitNaming /\ [][CheckpointCall]_vars

\* --------------------------------------- from_dict on an incomplete snapshot
FieldNames == DOMAIN NewState(None)

\* States of a run: waiting for the Coder after an Integration failure, at
\* the gate after a change request, after the Writer, after a Tester that
\* found static errors.
SampleDebugging ==
  LET a == human_plan_approval(ArchitectRun(NewState("all"), "plan"), "A")
      b == ReviewerRun(CoderRun(a, TRUE), "VERDICT: REJECT")
      c == [b EXCEPT !.review_retry_count = 1, !.fix_instructions = "review"]
      d == ReviewerRun(CoderRun(c, TRUE), "VERDICT: PASS")
      e == TesterRun(d, 0, 0, TRUE, 0)
  IN  DebuggerRun(IntegrationRun(e, FALSE), <<3>>)

SampleReplan ==
  human_plan_approval(ArchitectRun(NewState(None), "plan"), "C")

SampleDone ==
  LET a == human_plan_approval(ArchitectRun(NewState("all"), "plan"), "A")
      b == ReviewerRun(CoderRun(a, TRUE), "VERDICT: PASS")
  IN  WriterRun(IntegrationRun(TesterRun(b, 0, 0, TRUE, 0), TRUE))

SampleStatic ==
  LET a == human_plan_approval(ArchitectRun(NewState(None), "plan"), "A")
      b == ReviewerRun(CoderRun(a, TRUE), "VERDICT: PASS")
  IN  TesterRun(b, 1, 0, TRUE, 0)

SampleStates == {SampleDebugging, SampleReplan, SampleDone, SampleStatic}

\* The snapshot of s with only the fields in present.
PartialSnapshot(s, present) ==
  LET doc == json_dump(to_dict(s)) IN [f \in present |-> doc[f]]

\* A run directory holding one snapshot that lacks some fields.
InitPartial ==
  /\ \E s \in SampleStates, missing \in SUBSET FieldNames :
       files = (FileName(1, "architect", 0) :> PartialSnapshot(s, FieldNames \ missing))
  /\ state = NewState(None)
  /\ pc = "load"
  /\ review_attempts = 0
  /\ attempts = 0
  /\ step = 0
  /\ calls = <<>>
  /\ resumes = 0
  /\ ret = None
  /\ subprocesses = <<>>
  /\ proc = <<>>
  /\ polls = 0

\* load_latest_checkpoint(run_id) as main calls it for --resume
LoadSnapshot ==
  /\ pc = "load"
  /\ state' = load_latest_checkpoint(files)
  /\ pc' = "loaded"
  /\ UNCHANGED <<review_attempts, attempts, step, files, calls, resumes, ret,
               subprocesses, proc, polls>>

SpecPartial == InitPartial /\ [][LoadSnapshot]_vars

\* One step of run(), the LLM answering in the given formats.
RunStep(FixFormats, Responses) ==
  \/ Architect
  \/ HumanGate
  \/ Coder(FixFormats)
  \/ Reviewer(Responses)
  \/ Tester
  \/ Debugger
  \/ CoderFix(FixFormats)
  \/ Integration
  \/ Writer

\* A fresh run() invocation.
Next == RunStep(BOOLEAN, ReviewerResponses)

Spec == Init /\ [][Next]_vars

\* A run and the --resume invocations that follow it; the LLM answers in the
\* requested format and the run was started with --devops.
InitResume == Init /\ state.devops_mode = "all"

NextResume == RunStep({TRUE}, {"VERDICT: PASS", "VERDICT: REJECT"}) \/ Resume

SpecResume == InitResume /\ [][NextResume]_vars

\* ------------------------------------------- a checkpoint write that fails
\* The state an agent call of run() hands to _checkpoint at the current
\* position, with the entry the call leaves in calls.
CheckpointArguments ==
  IF pc = "architect"
  THEN {[s |-> ArchitectRun(state, r), call |-> "Architect"] : r \in ArchitectResponses}
  ELSE IF pc = "gate"
  THEN {[s |-> [human_plan_approval(state, c) EXCEPT !.status = PLAN_REVIEW],
         call |-> c] : c \in GateChoices}
  ELSE IF pc \in {"coder", "coder_fix_unit", "coder_fix_integration"}
  THEN {[s |-> CoderRun(state, m), call |-> "Coder"] : m \in BOOLEAN}
  ELSE IF pc = "reviewer"
  THEN {[s |-> ReviewerRun(state, r), call |-> "Reviewer"] : r \in ReviewerResponses}
  ELSE IF pc = "tester"
  THEN {[s |-> TesterRun(state, nerr, 0, python, rc), call |-> "Tester"] :
          nerr \in StaticResults, python \in BOOLEAN, rc \in TestReturnCodes}
  ELSE IF pc \in {"debugger_unit", "debugger_integration"}
  THEN {[s |-> DebuggerRun(state, m), call |-> "Debugger"] : m \in ConfidenceMatches}
  ELSE IF pc = "integration"
  THEN {[s |-> IntegrationRun(state, b), call |-> "IntegrationAgent"] : b \in BOOLEAN}
  ELSE IF pc = "writer"
  THEN {[s |-> WriterRun(state), call |-> "Writer"]}
  ELSE {}

\* An agent call whose _checkpoint fails: _step is incremented, open() or
\* json.dump raises OSError inside save_checkpoint, nothing catches it in
\* _checkpoint, run() or main, and the exception leaves run().
CheckpointRaises ==
  /\ \E c \in CheckpointArguments :
       /\ state' = c.s
       /\ Called(c.call)
  /\ step' = step + 1
  /\ pc' = "raised"
  /\ UNCHANGED <<files, review_attempts, attempts, resumes, ret,
               subprocesses, proc, polls>>

\* A fresh run() invocation on a disk whose writes may fail.
NextDisk == Next \/ CheckpointRaises

SpecDisk == Init /\ [][NextDisk]_vars

\* ------------------------------------------- external commands that time out
\* The ways a subprocess.run(..., timeout=...) call can end.
SubprocessOutcomes == {"exit0", "exit1", "timeout"}

\* shell_tools.run_command: the result dict for each way the command ends
run_command(outcome) ==
  CASE outcome = "exit0" ->
         [returncode |-> 0, stdout |-> "out", stderr |-> ""]
    [] outcome = "exit1" ->
         [returncode |-> 1, stdout |-> "out", stderr |-> "err"]
    [] outcome = "timeout" ->
         [returncode |-> -1, stdout |-> "", stderr |-> "Command timed out"]

\* shell_tools.run_static_analysis on a Java, Node.js or Go project: the
\* number of error lines taken from the checker's result (here 0 or 1).
static_errors(r) ==
  IF r.returncode # 0 /\ (r.stdout # "" \/ r.stderr # "") THEN 1 ELSE 0

\* _build_java, _build_nodejs, _build_go, _build_python: subprocess.run with
\* a timeout and no handler; raised: TimeoutExpired leaves the function.
build(outcome) ==
  [raised |-> outcome = "timeout", ok |-> outcome = "exit0"]

\* Stage 3a on a project whose static check and test runner are external
\* commands (Java, Node.js, Go).
TesterSubprocess ==
  /\ pc = "tester"
  /\ \E static \in SubprocessOutcomes, tests \in SubprocessOutcomes :
       LET nerr == static_errors(run_command(static))
           s1 == TesterRun(state, nerr, 0, FALSE, run_command(tests).returncode)
       IN  /\ Checkpoint(s1, "tester_attempt", attempts + 1)
           /\ AfterTest(s1)
           /\ subprocesses' = IF nerr > 0 THEN <<static>> ELSE <<static, tests>>
  /\ Called("Tester")
  /\ UNCHANGED <<review_attempts, attempts, resumes, ret, proc, polls>>

\* Stage 3b with the build command of run_integration_tests: an exception
\* raised by the build leaves run_integration_tests, IntegrationAgent.run
\* (status already INTEGRATION) and run().
IntegrationSubprocess ==
  /\ pc = "integration"
  /\ \E outcome \in SubprocessOutcomes, assertions_passed \in BOOLEAN :
       /\ IF build(outcome).raised
          THEN /\ state' = [state EXCEPT !.status = INTEGRATION]
               /\ pc' = "raised"
               /\ UNCHANGED <<step, files, review_attempts, attempts>>
          ELSE LET s1 == IntegrationRun(state, build(outcome).ok /\ assertions_passed)
               IN  /\ Checkpoint(s1, "integration_attempt", attempts + 1)
                   /\ AfterIntegration(s1)
       /\ subprocesses' = <<outcome>>
  /\ Called("IntegrationAgent")
  /\ UNCHANGED <<resumes, ret, proc, polls>>

\* A fresh run() invocation on such a project, the LLM answering in the
\* requested format.
NextSubprocess ==
  \/ Architect
  \/ HumanGate
  \/ Coder({TRUE})
  \/ Reviewer({"VERDICT: PASS", "VERDICT: REJECT"})
  \/ TesterSubprocess
  \/ Debugger
  \/ CoderFix({TRUE})
  \/ IntegrationSubprocess
  \/ Writer

SpecSubprocess == Init /\ [][NextSubprocess]_vars

\* --------------------------------------------------- run_integration_tests
MAX_STARTUP_SECS == 45
HEALTH_POLL_SECS == 1

\* subprocess.Popen: a running server; stubborn: it does not stop on SIGTERM.
Popen(stubborn) == [alive |-> TRUE, stubborn |-> stubborn, signals |-> <<>>]

\* Popen.terminate: nothing once the process is known to have exited
terminate(p) ==
  IF ~p.alive THEN p
  ELSE [p EXCEPT !.signals = Append(@, "SIGTERM"), !.alive = p.stubborn]

\* Popen.kill
kill(p) ==
  IF ~p.alive THEN p
  ELSE [p EXCEPT !.signals = Append(@, "SIGKILL"), !.alive = FALSE]

\* Teardown: terminate, wait(timeout=10), and kill when the wait timed out
teardown(p) ==
  LET p1 == terminate(p) IN IF p1.alive THEN kill(p1) ELSE p1

\* The result dict, as far as the callers read it.
Result(passed, error) == [passed |-> passed, error |-> error]

\* The state of a run whose Tester has just passed.
SampleTested ==
  LET a == human_plan_approval(ArchitectRun(NewState(None), "plan"), "A")
      b == ReviewerRun(CoderRun(a, TRUE), "VERDICT: PASS")
  IN  TesterRun(b, 0, 0, TRUE, 0)

\* IntegrationAgent.run has called run_integration_tests.
InitIntegrationTests ==
  /\ state = [SampleTested EXCEPT !.status = INTEGRATION]
  /\ pc = "build"
  /\ review_attempts = 0
  /\ attempts = 0
  /\ step = 0
  /\ files = <<>>
  /\ calls = <<>>
  /\ resumes = 0
  /\ ret = None
  /\ subprocesses = <<>>
  /\ proc = <<>>
  /\ polls = 0

\* 2. Build
BuildProject ==
  /\ pc = "build"
  /\ \E outcome \in SubprocessOutcomes :
       /\ subprocesses' = <<outcome>>
       /\ IF build(outcome).raised
          THEN pc' = "raised" /\ UNCHANGED ret
          ELSE IF ~build(outcome).ok
          THEN /\ ret' = Result(FALSE, "BUILD FAILED")
               /\ pc' = "returned"
          ELSE pc' = "start" /\ UNCHANGED ret
  /\ UNCHANGED <<state, review_attempts, attempts, step, files, calls, resumes,
                 proc, polls>>

\* 3. Start server: the starter returns a process or None
StartServer ==
  /\ pc = "start"
  /\ \/ /\ proc' = <<>>
        /\ ret' = Result(FALSE, "Could not determine server start command")
        /\ pc' = "returned"
     \/ \E stubborn \in BOOLEAN :
          /\ proc' = <<Popen(stubborn)>>
          /\ pc' = "health"
          /\ UNCHANGED ret
  /\ UNCHANGED <<state, review_attempts, attempts, step, files, calls, resumes,
                 subprocesses, polls>>

\* 4. Wait for health: one iteration of the for loop
PollHealth ==
  /\ pc = "health"
  /\ polls < MAX_STARTUP_SECS \div HEALTH_POLL_SECS
  /\ polls' = polls + 1
  /\ \E died \in BOOLEAN, healthy \in BOOLEAN :
       IF died
       THEN /\ proc' = <<[proc[1] EXCEPT !.alive = FALSE]>>
            /\ pc' = "not_ready"
       ELSE /\ UNCHANGED proc
            /\ pc' = IF healthy THEN "tests"
                     ELSE IF polls + 1 = MAX_STARTUP_SECS \div HEALTH_POLL_SECS
                     THEN "not_ready"
                     ELSE "health"
  /\ UNCHANGED <<state, review_attempts, attempts, step, files, calls, resumes,
                 ret, subprocesses>>

\* "if not ready": terminate and return
NotReady ==
  /\ pc = "not_ready"
  /\ proc' = <<terminate(proc[1])>>
  /\ ret' = Result(FALSE, "Server did not become healthy")
  /\ pc' = "returned"
  /\ UNCHANGED <<state, review_attempts, attempts, step, files, calls, resumes,
                 subprocesses, polls>>

\* 5. Run curl tests, 6. Teardown, return
RunAssertions ==
  /\ pc = "tests"
  /\ \E all_passed \in BOOLEAN :
       ret' = Result(all_passed, None)
  /\ proc' = <<teardown(proc[1])>>
  /\ pc' = "returned"
  /\ UNCHANGED <<state, review_attempts, attempts, step, files, calls, resumes,
                 subprocesses, polls>>

NextIntegrationTests ==
  \/ BuildProject
  \/ StartServer
  \/ PollHealth
  \/ NotReady
  \/ RunAssertions

SpecIntegrationTests == InitIntegrationTests /\ [][NextIntegrationTests]_vars

\* ------------------------------------- two runs in one interpreter process
\* run() invoked for two run_ids in the same process (two threads): each run
\* has its own PipelineState, position and checkpoint directory
\* WORKFLOW_DIR/<run_id>; the module global _step is the only one there is.
\* In this specification state, pc, files and calls are functions of the
\* run_id; calls[r] lists the snapshot names run r has written.
RunIds == {"run_a", "run_b"}

MaxRunCheckpoints == 4

InitTwoRuns ==
  /\ state = [r \in RunIds |-> NewState(None)]
  /\ pc = [r \in RunIds |-> "start"]
  /\ files = [r \in RunIds |-> <<>>]
  /\ calls = [r \in RunIds |-> <<>>]
  /\ step = 0
  /\ review_attempts = 0
  /\ attempts = 0
  /\ resumes = 0
  /\ ret = None
  /\ subprocesses = <<>>
  /\ proc = <<>>
  /\ polls = 0

\* run(): "global _step; _step = 0"
StartRun(r) ==
  /\ pc[r] = "start"
  /\ step' = 0
  /\ pc' = [pc EXCEPT ![r] = "architect"]
  /\ UNCHANGED <<state, files, calls, review_attempts, attempts, resumes, ret,
                 subprocesses, proc, polls>>

\* Stage 1 of run r: architect.run and _checkpoint(state, "architect")
ArchitectOf(r) ==
  /\ pc[r] = "architect"
  /\ Len(calls[r]) < MaxRunCheckpoints
  /\ LET s1 == ArchitectRun(state[r], "plan")
     IN  /\ state' = [state EXCEPT ![r] = s1]
         /\ step' = step + 1
         /\ files' = [files EXCEPT ![r] = save_checkpoint(@, s1, "architect", 0, step + 1)]
         /\ calls' = [calls EXCEPT ![r] = Append(@, FileName(step + 1, "architect", 0))]
  /\ pc' = [pc EXCEPT ![r] = "gate"]
  /\ UNCHANGED <<review_attempts, attempts, resumes, ret, subprocesses, proc, polls>>

\* Stage 1 of run r: the gate (the human asks for changes) and
\* _checkpoint(state, "plan_review")
GateOf(r) ==
  /\ pc[r] = "gate"
  /\ Len(calls[r]) < MaxRunCheckpoints
  /\ LET s1 == [human_plan_approval(state[r], "C") EXCEPT !.status = PLAN_REVIEW]
     IN  /\ state' = [state EXCEPT ![r] = s1]
         /\ step' = step + 1
         /\ files' = [files EXCEPT ![r] = save_checkpoint(@, s1, "plan_review", 0, step + 1)]
         /\ calls' = [calls EXCEPT ![r] = Append(@, FileName(step + 1, "plan_review", 0))]
  /\ pc' = [pc EXCEPT ![r] = "architect"]
  /\ UNCHANGED <<review_attempts, attempts, resumes, ret, subprocesses, proc, polls>>

NextTwoRuns ==
  \E r \in RunIds : StartRun(r) \/ ArchitectOf(r) \/ GateOf(r)

SpecTwoRuns == InitTwoRuns /\ [][NextTwoRuns]_vars

\* ------------------------------------------------------------ the CLI process
\* main has parsed its arguments; nothing of the run exists yet.
InitMain ==
  /\ state \in {NewState(None), NewState("all")}
  /\ pc = "main"
  /\ review_attempts = 0
  /\ attempts = 0
  /\ step = 0
  /\ files = <<>>
  /\ calls = <<>>
  /\ resumes = 0
  /\ ret = None
  /\ subprocesses = <<>>
  /\ proc = <<>>
  /\ polls = 0

\* main up to the run() call: --resume of a run_id without checkpoints and a
\* new run without --task end in sys.exit(1); otherwise run() is invoked.
Main ==
  /\ pc = "main"
  /\ \E resume \in BOOLEAN, task \in BOOLEAN :
       /\ resumes' = IF resume THEN resumes + 1 ELSE resumes
       /\ IF resume /\ DOMAIN files = {}   \* load_latest_checkpoint is None
          THEN pc' = "exited" /\ ret' = 1
          ELSE IF ~task
          THEN pc' = "exited" /\ ret' = 1
          ELSE pc' = "architect" /\ UNCHANGED ret
  /\ UNCHANGED <<state, review_attempts, attempts, step, files, calls,
                 subprocesses, proc, polls>>

ExitAlwaysZero ==
  /\ pc = "returned"
  /\ ret' = 0
  /\ pc' = "exited"
  /\ UNCHANGED <<state, review_attempts, attempts, step, files, calls, resumes,
                 subprocesses, proc, polls>>

\* main after run() has returned: sys.exit(1) on FAILED or ABORTED, else the
\* interpreter exits with 0.
Exit ==
  /\ pc = "returned"
  /\ ret' = IF state.status \in {"FAILED", "ABORTED"} THEN 1 ELSE 0
  /\ pc' = "exited"
  /\ UNCHANGED <<state, review_attempts, attempts, step, files, calls, resumes,
                 subprocesses, proc, polls>>

NextMain == Main \/ Next \/ Exit

SpecMain == InitMain /\ [][NextMain]_vars

\* ------------------------------------------------------------------ list_runs
\* In this specification files is WORKFLOW_DIR: run_id -> run directory, a
\* run directory being file name -> file. run_ids and task prompts are
\* sequences of character codes. A file is what json.dump wrote: complete is
\* false when the writing process was killed before the document was whole.
RunDirNames == {<<97>>, <<97, 98>>, <<98>>}

Prompt(n) == [i \in 1..n |-> 120]

SnapshotFiles ==
  {[complete |-> TRUE, doc |-> [status |-> CODING, task_prompt |-> Prompt(81)]],
   [complete |-> TRUE, doc |-> [status |-> DONE, task_prompt |-> Prompt(3)]],
   [complete |-> TRUE, doc |-> EmptyDict],
   [complete |-> FALSE, doc |-> EmptyDict]}

RunDirs ==
  {<<>>}
    \cup {(FileName(1, "architect", 0) :> a) : a \in SnapshotFiles}
    \cup {(FileName(1, "architect", 0) :> a) @@ (FileName(2, "plan_review", 0) :> b) :
            a \in SnapshotFiles, b \in SnapshotFiles}

InitListRuns ==
  /\ \E ids \in SUBSET RunDirNames : files \in [ids -> RunDirs]
  /\ state = NewState(None)
  /\ pc = "list_runs"
  /\ review_attempts = 0
  /\ attempts = 0
  /\ step = 0
  /\ calls = <<>>
  /\ resumes = 0
  /\ ret = None
  /\ subprocesses = <<>>
  /\ proc = <<>>
  /\ polls = 0

\* sorted(WORKFLOW_DIR.iterdir())
RECURSIVE SortedNames(_)
SortedNames(ids) ==
  IF ids = {} THEN <<>>
  ELSE LET m == CHOOSE x \in ids : \A y \in ids \ {x} : SeqLess(x, y)
       IN  <<m>> \o SortedNames(ids \ {m})

\* data.get("task_prompt", "")[:80]
First80(text) == SubSeq(text, 1, IF Len(text) < 80 THEN Len(text) ELSE 80)

\* The loop of list_runs over the sorted run directories; json.load raising
\* on an incomplete file is swallowed by "except Exception: pass".
RECURSIVE ListEntries(_, _)
ListEntries(w, ids) ==
  IF ids = <<>> THEN <<>>
  ELSE LET run_dir == w[Head(ids)]
           rest == ListEntries(w, Tail(ids))
       IN  IF DOMAIN run_dir = {} THEN rest
           ELSE LET latest == LatestName(run_dir)
                    data == run_dir[latest].doc
                IN  IF ~run_dir[latest].complete THEN rest
                    ELSE <<[run_id |-> Head(ids),
                            last_checkpoint |-> latest,
                            status |-> Get(data, "status", "?"),
                            task_prompt |-> First80(Get(data, "task_prompt", <<>>)),
                            checkpoints |-> Cardinality(DOMAIN run_dir)]>> \o rest

list_runs(w) == ListEntries(w, SortedNames(DOMAIN w))

\* main --list-runs
CallListRuns ==
  /\ pc = "list_runs"
  /\ ret' = list_runs(files)
  /\ pc' = "listed"
  /\ UNCHANGED <<state, review_attempts, attempts, step, files, calls, resumes,
                 subprocesses, proc, polls>>

SpecListRuns == InitListRuns /\ [][CallListRuns]_vars

\* ------------------------------------------- a run whose agent calls return
\* The steps of run() after the planning loop.
NextAfterPlan ==
  \/ Coder(BOOLEAN)
  \/ Reviewer(ReviewerResponses)
  \/ Tester
  \/ Debugger
  \/ CoderFix(BOOLEAN)
  \/ Integration
  \/ Writer

\* A fresh run() invocation in which every agent call of Stages 2 to 4
\* returns: run() is sequential code, so whenever it stands before such a
\* call the call is made and the statements up to the next call follow.
SpecTerminates == Init /\ [][Next]_vars /\ WF_vars(NextAfterPlan)

\* =============================================================== properties
Last(seq) == seq[Len(seq)]

\* The step invokes agent a (or takes gate input a).
Invoked(a) == calls' = Append(calls, a)

CallCount(a) == Cardinality({i \in DOMAIN calls : calls[i] = a})

\* Debugger invocations recorded in the audit trail as having handed off a fix.
FixHandoffs(s) ==
  Cardinality({i \in DOMAIN s.audit_trail :
                 /\ s.audit_trail[i].agent = "Debugger"
                 /\ s.audit_trail[i].notes = "Fix ready"})

\* C1: once the human has entered Abort (X) at the plan approval gate, run()
\* has returned with status ABORTED and X is the last event of the run: no
\* agent is invoked after it.
C1_AbortIsTerminal ==
  \A i \in DOMAIN calls :
    calls[i] = "X" => /\ i = Len(calls)
                      /\ pc = "returned"
                      /\ state.status = ABORTED

\* C2: in Stage 3 the Tester and the Integration agent run with the attempt
\* counter equal to retry_count; a failing Tester or Integration result at
\* attempts >= MAX_DEBUG_RETRIES makes run() return FAILED, the Debugger is
\* invoked only below the cap, and nothing is invoked once run() has returned.
C2_ExhaustedBudgetFails ==
  [][ /\ (Invoked("Tester") \/ Invoked("IntegrationAgent"))
           => attempts = state.retry_count
      /\ (Invoked("Tester") /\ attempts >= MAX_DEBUG_RETRIES /\ ~test_passed(state'))
           => (pc' = "returned" /\ state'.status = FAILED)
      /\ ( /\ Invoked("IntegrationAgent")
           /\ attempts >= MAX_DEBUG_RETRIES
           /\ state'.integration_passed # "True" )
           => (pc' = "returned" /\ state'.status = FAILED)
      /\ Invoked("Debugger") => attempts < MAX_DEBUG_RETRIES
      /\ pc = "returned" => calls' = calls ]_vars

\* C2 witness: run() returned FAILED on a failing Tester result at the cap.
C2_Witness ==
  /\ pc = "returned"
  /\ state.status = FAILED
  /\ attempts >= MAX_DEBUG_RETRIES
  /\ calls # <<>> /\ Last(calls) = "Tester"
  /\ ~test_passed(state)

\* C3: in a fresh run the Debugger is invoked at most MAX_DEBUG_RETRIES times,
\* unit and integration failures counted together, and retry_count equals the
\* number of Debugger invocations that handed off a fix.
C3_SharedDebugBudget ==
  /\ CallCount("Debugger") <= MAX_DEBUG_RETRIES
  /\ state.retry_count = FixHandoffs(state)

\* C3 witness: the whole budget was used, by unit and by integration failures.
C3_Witness ==
  /\ CallCount("Debugger") = MAX_DEBUG_RETRIES
  /\ state.retry_count = MAX_DEBUG_RETRIES
  /\ \E f \in DOMAIN files : f.kind = "debugger_unit_"
  /\ \E f \in DOMAIN files : f.kind = "debugger_integration_"

\* C4: review_retry_count never exceeds MAX_REVIEW_RETRIES + 1, in a fresh run
\* or in a run resumed from one of its own checkpoints.
C4_ReviewRetryBounded ==
  state.review_retry_count <= MAX_REVIEW_RETRIES + 1

\* C5: a REJECT verdict received with review_attempts >= MAX_REVIEW_RETRIES
\* ends Stage 2: the agent invoked next is the Tester, not the Coder, and
\* no step of the review loop sets status to FAILED.
C5_RejectAtCapProceeds ==
  [][ /\ ( /\ Invoked("Reviewer")
           /\ reviewer_verdict(state'.review_notes) = "REJECT"
           /\ review_attempts >= MAX_REVIEW_RETRIES )
           => (pc' = "tester" /\ state'.status # FAILED)
      /\ pc \in {"coder", "reviewer"} => state'.status # FAILED ]_vars

\* C5 witness: the Reviewer rejected at the cap and the Tester is next.
C5_Witness ==
  /\ calls # <<>> /\ Last(calls) = "Reviewer"
  /\ state.review_notes = "VERDICT: REJECT"
  /\ review_attempts >= MAX_REVIEW_RETRIES
  /\ pc = "tester"

\* C6: a Debugger invocation whose parsed confidence is below the threshold
\* sets status FAILED and fix_instructions None, leaves retry_count as it
\* was, and run() returns at once; a returned run invokes nothing.
C6_LowConfidenceEscalates ==
  [][ /\ \A m \in ConfidenceMatches :
           ( /\ Invoked("Debugger")
             /\ ParseConfidence(m) < LOW_CONFIDENCE_THRESHOLD
             /\ state' = DebuggerRun(state, m) )
           => /\ state'.status = FAILED
              /\ state'.fix_instructions = None
              /\ state'.retry_count = state.retry_count
              /\ pc' = "returned"
      /\ pc = "returned" => calls' = calls ]_vars

\* C6 witness: the run ended on the first Debugger call, budget unused.
C6_Witness ==
  /\ pc = "returned"
  /\ state.status = FAILED
  /\ calls # <<>> /\ Last(calls) = "Debugger"
  /\ state.retry_count = 0
  /\ state.fix_instructions = None

\* C7: after an Integration failure with retry_count < MAX_DEBUG_RETRIES the
\* agents invoked next are the Debugger, then the Coder, then the Tester, and
\* integration_passed is None again when that Tester runs.
C7_IntegrationFailureCycle ==
  [][ /\ ( /\ Invoked("IntegrationAgent")
           /\ state'.integration_passed # "True"
           /\ state.retry_count < MAX_DEBUG_RETRIES )
           => pc' = "debugger_integration"
      /\ pc = "debugger_integration"
           => (Invoked("Debugger") /\ pc' = "coder_fix_integration")
      /\ pc = "coder_fix_integration"
           => /\ Invoked("Coder")
              /\ pc' = "tester"
              /\ state'.integration_passed = None ]_vars

\* C7 as amended: the Coder and the Tester follow only a Debugger that
\* handed off a fix; a low-confidence Debugger ends the run FAILED.
C7_IntegrationFailureCycleUnlessEscalated ==
  [][ /\ ( /\ Invoked("IntegrationAgent")
           /\ state'.integration_passed # "True"
           /\ state.retry_count < MAX_DEBUG_RETRIES )
           => pc' = "debugger_integration"
      /\ pc = "debugger_integration"
           => /\ Invoked("Debugger")
              /\ IF state'.retry_count = state.retry_count + 1
                 THEN pc' = "coder_fix_integration"
                 ELSE pc' = "returned" /\ state'.status = FAILED
      /\ pc = "coder_fix_integration"
           => /\ Invoked("Coder")
              /\ pc' = "tester"
              /\ state'.integration_passed = None ]_vars

\* C7 witness: Integration, Debugger, Coder ran in this order; Tester is next.
C7_Witness ==
  /\ pc = "tester"
  /\ Len(calls) >= 3
  /\ SubSeq(calls, Len(calls) - 2, Len(calls)) = <<"IntegrationAgent", "Debugger", "Coder">>
  /\ state.integration_passed = None

\* C8: the Integration agent is invoked only right after a Tester invocation
\* whose result satisfies test_passed(), and every Tester invocation whose
\* result passes is followed by an Integration invocation.
C8_IntegrationFollowsPassingTester ==
  [][ /\ Invoked("IntegrationAgent")
           => (calls # <<>> /\ Last(calls) = "Tester" /\ test_passed(state))
      /\ Invoked("Tester") => (test_passed(state') <=> pc' = "integration")
      /\ pc = "integration" => Invoked("IntegrationAgent") ]_vars

\* C8 witness: Integration ran after a passing Tester that followed the last
\* Debugger/Coder cycle of the budget.
C8_Witness ==
  /\ Len(calls) >= 2
  /\ Last(calls) = "IntegrationAgent"
  /\ calls[Len(calls) - 1] = "Tester"
  /\ CallCount("Debugger") = MAX_DEBUG_RETRIES

\* C9: a Tester invocation that leaves static errors recorded does not run
\* the test runner (test_output is left as it was) and its result fails
\* test_passed(); otherwise test_output is the runner's result. Integration
\* is never the next agent while static errors are recorded.
C9_NoRuntimeTestsOnStaticErrors ==
  /\ pc = "tester" =>
       \A nerr \in StaticResults, python \in BOOLEAN, rc \in TestReturnCodes :
         \A nfix \in 0..nerr :
           LET r == TesterRun(state, nerr, nfix, python, rc)
           IN  IF Truthy(r.static_analysis_output)
               THEN r.test_output = state.test_output /\ ~test_passed(r)
               ELSE r.test_output = [returncode |-> rc]
  /\ pc = "integration" => ~Truthy(state.static_analysis_output)

\* C9 witness: static errors recorded over an earlier passing test_output;
\* the Tester returned and the Debugger, not Integration, is next.
C9_Witness ==
  /\ calls # <<>> /\ Last(calls) = "Tester"
  /\ Truthy(state.static_analysis_output)
  /\ Get(state.test_output, "returncode", 1) = 0
  /\ pc = "debugger_unit"

\* C10: test_passed() is true exactly when static_analysis_output is None or
\* empty and test_output holds returncode 0.
C10_TestPassedIff ==
  pc = "test_passed_returned" =>
    ret = ( /\ state.static_analysis_output \in {None, ""}
            /\ "returncode" \in DOMAIN state.test_output
            /\ state.test_output.returncode = 0 )

\* C10 witness: static errors over returncode 0 give false.
C10_Witness ==
  /\ pc = "test_passed_returned"
  /\ ret = FALSE
  /\ state.static_analysis_output = "E1"
  /\ "returncode" \in DOMAIN state.test_output
  /\ state.test_output.returncode = 0

\* C11: a fresh run that returns DONE has invoked the DevOps agent exactly
\* once, after the Writer, when devops_mode is set, and never when it is not.
C11_DevOpsRunsOnceWhenEnabled ==
  (pc = "returned" /\ state.status = DONE) =>
    IF Truthy(state.devops_mode)
    THEN /\ CallCount("DevOps") = 1
         /\ Last(calls) = "DevOps"
         /\ calls[Len(calls) - 1] = "Writer"
    ELSE CallCount("DevOps") = 0

\* C12: no agent sets status DONE (the Writer's result is not DONE), and no
\* checkpoint holds status DONE while Stage 5 remains to run for it.
C12_DoneOnlyByFinalStep ==
  /\ pc = "writer" => WriterRun(state).status # DONE
  /\ \A f \in DOMAIN files :
       files[f].status = DONE =>
         (f.kind = "devops_final" \/ json_load(files[f]).devops_mode = None)

\* The step is a --resume invocation.
Resumed == resumes' = resumes + 1

DebugLoopKinds ==
  {"tester_attempt", "debugger_unit_", "debugger_integration_",
   "coder_fix_unit_", "coder_fix_integration_", "integration_attempt"}

\* C13: a resume whose latest checkpoint was taken inside the test/debug loop
\* (and is not terminal) re-enters Stage 3 at the Tester with generated_files
\* as stored: Stage 2 is not run again.
C13_ResumeReentersStage3 ==
  [][ ( /\ Resumed
        /\ LatestName(files).kind \in DebugLoopKinds
        /\ load_latest_checkpoint(files).status \notin Terminal )
        => /\ pc' = "tester"
           /\ state'.generated_files = load_latest_checkpoint(files).generated_files ]_vars

\* C14: in a run resumed from a persisted state with status TESTING and
\* retry_count r, a failing first Tester result hands over to the Debugger
\* when r < MAX_DEBUG_RETRIES and makes run() return FAILED otherwise; the
\* step taken at the Debugger's position invokes the Debugger.
C14_ResumedTesterFailure ==
  [][ /\ ( /\ resumes >= 1 /\ calls = <<>>
           /\ state.status = TESTING
           /\ Invoked("Tester")
           /\ ~test_passed(state') )
           => IF state.retry_count < MAX_DEBUG_RETRIES
              THEN pc' = "debugger_unit" /\ state'.status = TESTING
              ELSE pc' = "returned" /\ state'.status = FAILED
      /\ (pc = "debugger_unit" /\ ~Resumed)
           => (Invoked("Debugger") /\ state'.status \in {DEBUGGING, FAILED}) ]_vars

\* C14 witness: resumed at retry_count = MAX_DEBUG_RETRIES - 1, the Tester
\* failed and the Debugger is next.
C14_Witness ==
  /\ resumes >= 1
  /\ calls = <<"Tester">>
  /\ state.retry_count = MAX_DEBUG_RETRIES - 1
  /\ ~test_passed(state)
  /\ pc = "debugger_unit"
  /\ \E f \in DOMAIN files :
       f.kind = "tester_attempt" /\ f.n = MAX_DEBUG_RETRIES /\ f.step > 1
  /\ \A f \in DOMAIN files :
       f.n = MAX_DEBUG_RETRIES => f.kind = "tester_attempt"

\* C15: run() returns only with status DONE, FAILED or ABORTED; run() given
\* any state with a terminal status returns it as it is; and a resume whose
\* latest checkpoint is terminal invokes no agent, saves nothing and keeps
\* the status.
C15_TerminalIsAbsorbing ==
  [][ /\ pc' = "returned" => state'.status \in Terminal
      /\ \A t \in Terminal :
           LET s == [state EXCEPT !.status = t]
           IN  EnterStage1(s) = [pc |-> "returned", s |-> s]
      /\ (Resumed /\ load_latest_checkpoint(files).status \in Terminal)
           => /\ pc' = "returned"
              /\ calls' = <<>>
              /\ files' = files
              /\ state'.status = load_latest_checkpoint(files).status
      /\ pc = "returned" => (Resumed \/ calls' = calls) ]_vars

\* C15 witness: a resume from a terminal checkpoint has returned at once.
C15_Witness ==
  /\ resumes >= 1
  /\ calls = <<>>
  /\ pc = "returned"
  /\ state.status = FAILED
  /\ files[LatestName(files)].status = FAILED

\* The snapshot file the step wrote (created or changed).
Written(f) ==
  /\ f \in DOMAIN files'
  /\ (f \notin DOMAIN files \/ files'[f] # files[f])

\* C16: after every save, also one made by a resumed invocation, the name
\* load_latest_checkpoint picks is the file just written; with no snapshot it
\* returns None.
C16_LatestIsLastSaved ==
  [][ /\ \A f \in DOMAIN files' : Written(f) => LatestName(files') = f
      /\ load_latest_checkpoint(<<>>) = None ]_vars

\* C17: every save uses a step number greater than the step numbers of all
\* snapshot files the run already has, across resumes too.
C17_StepsStrictlyIncrease ==
  [][ \A f \in DOMAIN files' :
        Written(f) => \A g \in DOMAIN files : g.step < f.step ]_vars

\* C18: sorting the snapshot file names lexically yields them in the order
\* they were saved by one run() invocation, however many it saved.
C18_LexicalOrderIsSaveOrder ==
  \A f, g \in DOMAIN files : f.step < g.step => NameLess(f, g)

\* C19: from_dict of the JSON round trip of to_dict gives back the state, in
\* every field, and loading the snapshot saved last and saving it again
\* writes the same snapshot.
C19_RoundTrip ==
  /\ from_dict(json_load(json_dump(to_dict(state)))) = state
  /\ \A f \in DOMAIN files :
       f.step = step =>
         json_dump(to_dict(from_dict(json_load(files[f])))) = files[f]

\* C19 witness: a state with plan items, audit entries, generated and test
\* files, a test result and integration_passed False, and a saved snapshot.
C19_Witness ==
  /\ state.plan # <<>>
  /\ Len(state.audit_trail) >= 5
  /\ "a.py" \in DOMAIN state.generated_files
  /\ DOMAIN state.test_files # {}
  /\ "returncode" \in DOMAIN state.test_output
  /\ state.integration_passed = "False"
  /\ files # <<>>
  /\ files[LatestName(files)].integration_passed = "false"

\* C20: from_dict on a snapshot lacking any subset of the fields gives each
\* missing field its declared default and keeps every present field as stored.
C20_MissingFieldsDefault ==
  pc = "loaded" =>
    LET doc == files[FileName(1, "architect", 0)]
        back == json_dump(to_dict(state))
    IN  \A f \in FieldNames :
          IF f \in DOMAIN doc THEN back[f] = doc[f]
          ELSE state[f] = NewState(None)[f]

\* C20 witness: a snapshot without plan and integration_passed was loaded.
C20_Witness ==
  /\ pc = "loaded"
  /\ DOMAIN files[FileName(1, "architect", 0)] =
       FieldNames \ {"plan", "integration_passed", "audit_trail"}
  /\ state.status = DEBUGGING
  /\ state.retry_count = 1
  /\ state.plan = <<>>
  /\ state.integration_passed = None


\* C21: if writing a checkpoint fails, the run continues with its in-memory
\* state: once a write has failed (more _checkpoint calls than snapshots on
\* disk), run() is still at one of its stages, about to execute it, or has
\* returned with a terminal status.
StagePositions ==
  {"architect", "gate", "coder", "reviewer", "tester", "debugger_unit",
   "debugger_integration", "coder_fix_unit", "coder_fix_integration",
   "integration", "writer"}

WriteFailed == step > Cardinality(DOMAIN files)

C21_CheckpointFailureIsNonFatal ==
  WriteFailed =>
    \/ pc \in StagePositions
    \/ pc = "returned" /\ state.status \in Terminal

\* C22: in the planning loop, Approve sets plan_approved to true and
\* user_feedback to None and ends the loop (the Coder is next), so a run
\* approved on its first gate visit has invoked the Architect exactly once;
\* RequestChanges sets plan_approved to false and user_feedback to the entered
\* text, and the next agent invoked is the Architect.
C22_GateChoices ==
  [][/\ Invoked("A") =>
          /\ state'.plan_approved = TRUE
          /\ state'.user_feedback = None
          /\ pc' = "coder"
     /\ (Len(calls') >= 2 /\ calls'[2] = "A") => CallCount("Architect")' = 1
     /\ Invoked("C") =>
          /\ state'.plan_approved = FALSE
          /\ state'.user_feedback = "feedback"
          /\ pc' = "architect"]_vars

\* A change request, the second Architect invocation and then an approval.
C22_Witness ==
  /\ calls = <<"Architect", "C", "Architect", "A">>
  /\ state.plan_approved = TRUE
  /\ state.user_feedback = None
  /\ pc = "coder"

\* C23: after every Architect invocation plan_approved is false, also when
\* the plan failed to parse and when the invocation is made while resuming a
\* state saved with plan_approved true.
C23_ArchitectResetsApproval ==
  [][Invoked("Architect") => state'.plan_approved = FALSE]_vars

\* Reviewer texts in which the verdict pattern finds nothing.
NoVerdictLine(text) == text \notin {"VERDICT: PASS", "VERDICT: REJECT"}

\* C24: when the reviewer's text holds no verdict line, the Reviewer agent
\* resolves it to PASS (it logs no rejection and leaves review_retry_count
\* alone) and so does the orchestrator: Stage 2 ends after that
\* Coder/Reviewer round, the Tester being next, and review_retry_count is
\* what it was before the round.
C24_NoVerdictIsPass ==
  [][(Invoked("Reviewer") /\ NoVerdictLine(state'.review_notes)) =>
       /\ Last(state'.audit_trail).agent = "Reviewer"
       /\ Last(state'.audit_trail).notes # "REJECTED"
       /\ pc' = "tester"
       /\ state'.review_retry_count = state.review_retry_count]_vars

\* The first Coder/Reviewer round of a run got a review without a verdict
\* line, and Stage 2 has ended.
C24_Witness ==
  /\ calls = <<"Architect", "A", "Coder", "Reviewer">>
  /\ state.review_notes = "looks fine"
  /\ state.review_retry_count = 0
  /\ pc = "tester"

\* The step is a Reviewer invocation that returned a REJECT verdict.
Rejected ==
  /\ Invoked("Reviewer")
  /\ reviewer_verdict(state'.review_notes) = "REJECT"

\* C25: review_retry_count is incremented exactly once for each REJECT that
\* sends the code back to the Coder and is not incremented by a REJECT
\* received when the attempts have reached MAX_REVIEW_RETRIES; when Stage 2
\* ends it equals the number of Coder re-invocations caused by rejections.
C25_ReviewRetryCountsResends ==
  [][/\ (Rejected /\ pc' = "coder") =>
          state'.review_retry_count = state.review_retry_count + 1
     /\ (Rejected /\ review_attempts >= MAX_REVIEW_RETRIES) =>
          state'.review_retry_count = state.review_retry_count
     /\ (Invoked("Reviewer") /\ pc' # "coder") =>
          state'.review_retry_count = CallCount("Coder") - 1]_vars

AgentNames ==
  {"Architect", "Coder", "Reviewer", "Tester", "Debugger", "IntegrationAgent",
   "Writer"}

\* trail b is trail a with entries appended
Extends(a, b) == Len(b) >= Len(a) /\ SubSeq(b, 1, Len(a)) = a

\* C26: audit_trail is append-only (its length never decreases and its
\* entries are never changed) and every agent invocation appends at least
\* one entry, whatever path it returns by; the DevOps agent, were it invoked
\* on the state reached, would do the same.
C26_AuditTrailAppendOnly ==
  [][/\ Extends(state.audit_trail, state'.audit_trail)
     /\ (\E a \in AgentNames : Invoked(a)) =>
          Len(state'.audit_trail) >= Len(state.audit_trail) + 1
     /\ Extends(state'.audit_trail, DevOpsRun(state').audit_trail)
     /\ Len(DevOpsRun(state').audit_trail) >= Len(state'.audit_trail) + 1]_vars

\* A finished run in which every agent of Stages 1 to 4 was invoked, the
\* Tester on its static-error path and on its runtime paths.
C26_Witness ==
  /\ pc = "returned"
  /\ \A a \in AgentNames : CallCount(a) >= 1
  /\ \E i \in DOMAIN state.audit_trail : state.audit_trail[i].notes = "STATIC ERRORS"
  /\ \E i \in DOMAIN state.audit_trail : state.audit_trail[i].notes = "RUNTIME FAIL"
  /\ \E i \in DOMAIN state.audit_trail : state.audit_trail[i].notes = "Plan parsing error"
  /\ Len(state.audit_trail) >= Len(calls) - CallCount("A") - CallCount("C")

\* Number of agent invocations of the run (gate inputs are not agents).
AgentInvocations == Cardinality({i \in DOMAIN calls : calls[i] \in AgentNames})

\* C27: each agent invocation appends exactly one AuditEntry, so the length
\* of audit_trail equals the number of agent invocations of the run.
C27_OneEntryPerInvocation ==
  Len(state.audit_trail) = AgentInvocations

\* An external command of the agent call made in this step timed out.
TimedOut == \E i \in DOMAIN subprocesses' : subprocesses'[i] = "timeout"

\* C28: a timeout of an external subprocess (static check, test runner,
\* integration build) never leaves the agent call as an exception: the call
\* returns a failed result (the Tester's state does not pass, the
\* Integration agent sets integration_passed to false) and the run takes the
\* Debugger/retry path (the Debugger is next, or FAILED once the retries are
\* used up).
C28_TimeoutIsFailedResult ==
  [][((Invoked("Tester") \/ Invoked("IntegrationAgent")) /\ TimedOut) =>
       /\ pc' # "raised"
       /\ Invoked("Tester") => ~test_passed(state')
       /\ Invoked("IntegrationAgent") => state'.integration_passed = "False"
       /\ \/ pc' \in {"debugger_unit", "debugger_integration"}
          \/ /\ pc' = "returned"
             /\ state'.status = FAILED
             /\ attempts >= MAX_DEBUG_RETRIES]_vars

\* C29: on every return path of run_integration_tests reached after the
\* server process was started, the process has been terminated gracefully
\* (SIGTERM first, unless it had exited by itself) and, if that did not stop
\* it, killed: it is not alive when the function returns; and the health
\* poll has made at most MAX_STARTUP_SECS / HEALTH_POLL_SECS attempts.
C29_ServerStoppedOnReturn ==
  (pc = "returned" /\ proc # <<>>) =>
    /\ ~proc[1].alive
    /\ proc[1].signals # <<>> => proc[1].signals[1] = "SIGTERM"
    /\ polls <= MAX_STARTUP_SECS \div HEALTH_POLL_SECS

C31_ExitCode ==
  pc = "exited" =>
    IF step > 0
    THEN /\ ret # 0 <=> state.status \in {FAILED, ABORTED}
         /\ state.status = DONE => ret = 0
    ELSE /\ ret # 0
         /\ calls = <<>>
         /\ DOMAIN files = {}

\* A run that returned FAILED has exited with code 1.
C31_Witness ==
  /\ pc = "exited"
  /\ step > 0
  /\ state.status = FAILED
  /\ ret = 1

\* C32: list_runs returns one entry for every run directory that holds at
\* least one snapshot, in ascending run_id order; each entry carries the
\* number of snapshots, the name of the last snapshot, and the status and
\* the first 80 characters of task_prompt stored in that snapshot.
C32_ListRunsIsComplete ==
  pc = "listed" =>
    LET runs == {r \in DOMAIN files : DOMAIN files[r] # {}}
    IN  /\ Len(ret) = Cardinality(runs)
        /\ {ret[i].run_id : i \in DOMAIN ret} = runs
        /\ \A i, j \in DOMAIN ret : i < j => SeqLess(ret[i].run_id, ret[j].run_id)
        /\ \A i \in DOMAIN ret :
             LET run_dir == files[ret[i].run_id]
                 stored == run_dir[LatestName(run_dir)].doc
             IN  /\ ret[i].checkpoints = Cardinality(DOMAIN run_dir)
                 /\ ret[i].last_checkpoint = LatestName(run_dir)
                 /\ "status" \in DOMAIN stored => ret[i].status = stored.status
                 /\ "task_prompt" \in DOMAIN stored =>
                      /\ Len(ret[i].task_prompt) <= 80
                      /\ \A k \in DOMAIN ret[i].task_prompt :
                           ret[i].task_prompt[k] = stored.task_prompt[k]
                      /\ Len(stored.task_prompt) >= 80 => Len(ret[i].task_prompt) = 80
                      /\ Len(stored.task_prompt) < 80 =>
                           ret[i].task_prompt = stored.task_prompt

\* C33: the Writer is invoked at most once per run() invocation, and only
\* right after an Integration result with integration_passed true that
\* followed a passing Tester result; hence a run that returns DONE has
\* integration_passed true.
C33_WriterOnlyAfterIntegrationPass ==
  [][/\ Invoked("Writer") =>
          /\ CallCount("Writer") = 0
          /\ Len(calls) >= 2
          /\ calls[Len(calls)] = "IntegrationAgent"
          /\ calls[Len(calls) - 1] = "Tester"
          /\ state.integration_passed = "True"
          /\ test_passed(state)
     /\ (pc' = "returned" /\ state'.status = DONE) =>
          state'.integration_passed = "True"]_vars

\* A fresh run has returned DONE, the Writer having run once.
C33_Witness ==
  /\ pc = "returned"
  /\ resumes = 0
  /\ state.status = DONE
  /\ Last(calls) = "Writer"
  /\ CallCount("Writer") = 1
  /\ state.integration_passed = "True"

\* C34: every fix handed off by the Debugger is applied by a Coder
\* invocation before the next Tester invocation, in fresh runs and in runs
\* resumed from the Debugger's checkpoint: no Tester invocation starts while
\* fix_instructions is still set.
C34_FixAppliedBeforeTester ==
  [][Invoked("Tester") => ~Truthy(state.fix_instructions)]_vars

\* Position in calls of the last entry that is in names (0: none).
LastCallIn(names) ==
  LET at == {i \in DOMAIN calls : calls[i] \in names}
  IN  IF at = {} THEN 0 ELSE CHOOSE i \in at : \A j \in at : j <= i

\* C35: in a run() invocation that passes through the planning stage, the
\* Coder is invoked only if the most recent gate input was Approve and was
\* given for the most recently produced plan (after the last Architect
\* invocation); it is never invoked after Abort or RequestChanges.
C35_CoderOnlyAfterApprove ==
  [][(Invoked("Coder") /\ LastCallIn({"Architect"}) > 0) =>
       /\ LastCallIn(GateChoices) > LastCallIn({"Architect"})
       /\ calls[LastCallIn(GateChoices)] = "A"]_vars

\* C36: when run() returns, the most recently saved checkpoint of the run
\* records the status of the returned state, so that list_runs and a later
\* --resume see the terminal status the run ended with, also a FAILED set
\* when the retry budget was exhausted.
C36_ReturnedStatusIsSaved ==
  pc = "returned" =>
    /\ DOMAIN files # {}
    /\ files[LatestName(files)].status = state.status
    /\ load_latest_checkpoint(files).status = state.status

\* C37: once the plan is approved, and every agent call returning, run()
\* terminates: it returns DONE or FAILED, and it never makes more than
\* MAX_REVIEW_RETRIES + 1 Reviewer invocations or more than
\* MAX_DEBUG_RETRIES + 1 Tester invocations.
C37_TerminatesAfterApproval ==
  /\ [](/\ CallCount("Reviewer") <= MAX_REVIEW_RETRIES + 1
        /\ CallCount("Tester") <= MAX_DEBUG_RETRIES + 1)
  /\ (calls # <<>> /\ Last(calls) = "A")
       ~> (pc = "returned" /\ state.status \in {DONE, FAILED})

\* A run that used every Reviewer and Tester invocation it may make and
\* returned FAILED.
C37_Witness ==
  /\ pc = "returned"
  /\ state.status = FAILED
  /\ CallCount("A") = 1
  /\ CallCount("Reviewer") = MAX_REVIEW_RETRIES + 1
  /\ CallCount("Tester") = MAX_DEBUG_RETRIES + 1

\* C38: after every Coder invocation fix_instructions is None, and a Coder
\* invocation that starts with fix_instructions set takes the fix path: it
\* applies the fix to generated_files (the fixed file holds the fix
\* afterwards) and regenerates no file from the plan.  The Coder invocation
\* that follows a review REJECT below the cap starts with fix_instructions
\* set, so it takes the fix path.
C38_CoderAppliesFix ==
  [][Invoked("Coder") =>
       /\ state'.fix_instructions = None
       /\ Truthy(state.fix_instructions) =>
            /\ Last(state'.audit_trail).notes = "fix applied"
            /\ "a.py" \in DOMAIN state'.generated_files
            /\ state'.generated_files["a.py"] = "fix"
            /\ \A f \in DOMAIN state.generated_files :
                 state'.generated_files[f] \in {state.generated_files[f], "fix"}
       /\ (calls # <<>> /\ Last(calls) = "Reviewer") =>
            /\ Truthy(state.fix_instructions)
            /\ Last(state'.audit_trail).notes = "fix applied"]_vars
====
